---- MODULE Spec2Model ----
(***************************************************************************)
(* keylime/common/retry.py: retry_time(exponential, base, ntries, logger). *)
(*                                                                         *)
(* Every caller runs one invocation of retry_time, one source line per     *)
(* step, so that the steps of different invocations interleave.  The only  *)
(* thing invocations share is the logger, modelled by the sequence of the  *)
(* calls it has received.                                                  *)
(*                                                                         *)
(* Numbers.  base is a Python int or a Python float.  A number is the      *)
(* record [t, v, e] of value v * 2^e:                                      *)
(*   t = "int":   e = 0 and v is the (arbitrary precision) integer;        *)
(*   t = "float": v \in {-1, 0, 1} and e is the binary exponent, that is,  *)
(*                the floats modelled are 0.0 and the powers of two, on    *)
(*                which **, abs and > are exact in IEEE-754 doubles.       *)
(***************************************************************************)
EXTENDS Integers, Sequences, FiniteSets

\* Bounds of the model: int bases range over -MaxInt..MaxInt, ntries over 0..MaxTries.
MaxInt == 2
MaxTries == 2

\* float.__pow__ raises OverflowError when the result is not below 2^DBL_MAX_EXP.
DBL_MAX_EXP == 1024

Callers == {"c1", "c2"}

PyInt(n) == [t |-> "int", v |-> n, e |-> 0]
PyFloat(s, x) == [t |-> "float", v |-> s, e |-> x]

\* -2.0, 0.0, 0.5, 1.0, 2.0, 2.0**511, 2.0**512
Floats == {PyFloat(-1, 1), PyFloat(0, 0), PyFloat(1, -1), PyFloat(1, 0), PyFloat(1, 1), PyFloat(1, 511), PyFloat(1, 512)}
Ints == {PyInt(n) : n \in -MaxInt..MaxInt}
Bases == Ints \cup Floats
Tries == 0..MaxTries

\* The logger passed in: its warning() returns, raises an Exception (a handler
\* that is unavailable), or raises a BaseException that is no Exception
\* (KeyboardInterrupt, SystemExit).
Loggers == {"working", "failing", "interrupted"}

Args == [exponential : BOOLEAN, base : Bases, ntries : Tries, logger : Loggers]

NoArgs == [exponential |-> FALSE, base |-> PyInt(0), ntries |-> 0, logger |-> "working"]

VARIABLES pc, args, result, log

vars == <<pc, args, result, log>>

\* ------------------------------------------------------------------ values

RECURSIVE IntPow(_, _)
IntPow(b, n) == IF n = 0 THEN 1 ELSE b * IntPow(b, n - 1)

Returned(x) == [kind |-> "return", val |-> x, exc |-> "none"]
Raised(x) == [kind |-> "raise", val |-> PyInt(0), exc |-> x]
NoResult == [kind |-> "none", val |-> PyInt(0), exc |-> "none"]

\* base > 1
Gt1Loose(b) == IF b.t = "int" THEN b.v >= 1 ELSE b.v = 1 /\ b.e >= 0
Gt1(b) == IF b.t = "int" THEN b.v > 1 ELSE b.v = 1 /\ b.e >= 1

\* base**ntries, ntries a non-negative int: int ** int is exact, float ** int
\* raises OverflowError when the result is out of the range of a double.
PyPow(b, n) ==
    IF b.t = "int"
    THEN Returned(PyInt(IntPow(b.v, n)))
    ELSE IF n = 0
         THEN Returned(PyFloat(1, 0))
         ELSE IF b.v = 0
              THEN Returned(PyFloat(0, 0))
              ELSE IF b.e * n >= DBL_MAX_EXP
                   THEN Raised("OverflowError")
                   ELSE Returned(PyFloat(IntPow(b.v, n), b.e * n))

\* abs(base)
AbsForgotten(b) == b
Abs(b) == [b EXCEPT !.v = IF b.v < 0 THEN -b.v ELSE b.v]

\* logger.warning(fmt, base): what the call does in the caller
WarningOutcome(lg) ==
    CASE lg = "working" -> "ok"
      [] lg = "failing" -> "Exception"
      [] lg = "interrupted" -> "BaseException"

\* except: (bare) catches everything
CatchesOnlyException(x) == x = "Exception"
CatchesNothing(x) == FALSE
Catches(x) == TRUE

\* the logger's record after c's call logger.warning("Base %f ...", base)
Entry(c) == [caller |-> c, op |-> "warning",
             fmt |-> "Base %f incompatible with exponential backoff",
             arg |-> args[c].base]
EmitTwice(c) == Append(Append(log, Entry(c)), Entry(c))
EmitOverwrite(c) == <<Entry(c)>>
Emit(c) == Append(log, Entry(c))

\* ----------------------------------------------------------------- actions

Init ==
    /\ pc = [c \in Callers |-> "idle"]
    /\ args = [c \in Callers |-> NoArgs]
    /\ result = [c \in Callers |-> NoResult]
    /\ log = <<>>

\* a caller invokes retry_time(exponential, base, ntries, logger)
Call(c) ==
    /\ pc[c] = "idle"
    /\ \E a \in Args : args' = [args EXCEPT ![c] = a]
    /\ pc' = [pc EXCEPT ![c] = "L7"]
    /\ UNCHANGED <<result, log>>

\* line 7: if exponential:
BranchAlwaysExponential(c) == "L8"
BranchExponential(c) == IF args[c].exponential THEN "L8" ELSE "L16"

TestExponential(c) ==
    /\ pc[c] = "L7"
    /\ pc' = [pc EXCEPT ![c] = BranchExponential(c)]
    /\ UNCHANGED <<args, result, log>>

\* line 8: if base > 1:
TestBase(c) ==
    /\ pc[c] = "L8"
    /\ pc' = [pc EXCEPT ![c] = IF Gt1(args[c].base) THEN "L9" ELSE "L12"]
    /\ UNCHANGED <<args, result, log>>

\* line 9: return base**ntries
ReturnPow(c) ==
    /\ pc[c] = "L9"
    /\ result' = [result EXCEPT ![c] = PyPow(args[c].base, args[c].ntries)]
    /\ pc' = [pc EXCEPT ![c] = "done"]
    /\ UNCHANGED <<args, log>>

\* lines 11-14: try: logger.warning(...) except: None
Warn(c) ==
    /\ pc[c] = "L12"
    /\ log' = Emit(c)
    /\ LET out == WarningOutcome(args[c].logger) IN
        IF out = "ok" \/ Catches(out)
        THEN /\ pc' = [pc EXCEPT ![c] = "L16"]
             /\ UNCHANGED result
        ELSE /\ pc' = [pc EXCEPT ![c] = "done"]
             /\ result' = [result EXCEPT ![c] = Raised(out)]
    /\ UNCHANGED args

\* line 16: return abs(base)
ReturnAbs(c) ==
    /\ pc[c] = "L16"
    /\ result' = [result EXCEPT ![c] = Returned(Abs(args[c].base))]
    /\ pc' = [pc EXCEPT ![c] = "done"]
    /\ UNCHANGED <<args, log>>

Next ==
    \E c \in Callers :
        \/ Call(c)
        \/ TestExponential(c)
        \/ TestBase(c)
        \/ ReturnPow(c)
        \/ Warn(c)
        \/ ReturnAbs(c)

Spec == Init /\ [][Next]_vars

\* ------------------------------------------------- vocabulary of the claims

\* the mathematical value of a number is v * 2^e
ValGt1(b) == b.v >= 1 /\ (b.v >= 2 \/ b.e >= 1)
ValAbs(b) == [t |-> b.t, v |-> IF b.v >= 0 THEN b.v ELSE 0 - b.v, e |-> b.e]
ValPow(b, n) == [t |-> b.t, v |-> IntPow(b.v, n), e |-> b.e * n]
ValTimes(b, x) == [t |-> b.t, v |-> b.v * x.v, e |-> b.e + x.e]
ValOne(b) == [t |-> b.t, v |-> 1, e |-> 0]
\* x < y, for x and y positive and of the same type
ValLess(x, y) == x.v < y.v \/ (x.v = y.v /\ x.e < y.e)

Healthy(a) == a.exponential /\ ValGt1(a.base)
Degenerate(a) == a.exponential /\ ~ValGt1(a.base)

\* the warning calls the logger received from c's invocation
WarningsOf(c) == {i \in DOMAIN log : log[i].caller = c}
NumWarnings(c) == Cardinality(WarningsOf(c))
Running(c) == pc[c] # "idle"
Done(c) == pc[c] = "done"

\* ------------------------------------------------------------------ claims

\* C1: with exponential true and base > 1, every invocation returns exactly
\* base raised to the power ntries (1 when ntries = 0) and the logger receives
\* no warning call from it.
C1_ExponentialReturnsPower ==
    \A c \in Callers :
        (Done(c) /\ Healthy(args[c])) =>
            /\ result[c] = Returned(ValPow(args[c].base, args[c].ntries))
            /\ (args[c].ntries = 0 => result[c].val = ValOne(args[c].base))
            /\ NumWarnings(c) = 0

\* C2: with exponential true and base <= 1, the logger has received exactly one
\* warning call, carrying base unchanged, by the time the invocation is about
\* to return (and none before the warning statement), and the invocation
\* returns abs(base).
C2_DegenerateWarnsAndReturnsAbs ==
    \A c \in Callers :
        Degenerate(args[c]) =>
            /\ pc[c] \in {"L7", "L8", "L12"} => NumWarnings(c) = 0
            /\ pc[c] \in {"L16", "done"} =>
                /\ NumWarnings(c) = 1
                /\ \A i \in WarningsOf(c) :
                    log[i].op = "warning" /\ log[i].arg = args[c].base
            /\ Done(c) => result[c] = Returned(ValAbs(args[c].base))

C2_Witness ==
    \E c \in Callers :
        /\ Done(c)
        /\ args[c].exponential
        /\ args[c].base = PyInt(-2)
        /\ result[c] = Returned(PyInt(2))
        /\ \E i \in DOMAIN log : log[i].caller = c /\ log[i].arg = PyInt(-2)

\* C3: with exponential false, whatever the sign of base, the invocation
\* returns abs(base) and the logger receives no warning call from it.
C3_FixedReturnsAbsNoWarning ==
    \A c \in Callers :
        (Running(c) /\ ~args[c].exponential) =>
            /\ NumWarnings(c) = 0
            /\ Done(c) => result[c] = Returned(ValAbs(args[c].base))

C3_Witness ==
    \E c \in Callers :
        /\ Done(c)
        /\ ~args[c].exponential
        /\ args[c].base = PyFloat(-1, 1)
        /\ result[c] = Returned(PyFloat(1, 1))
        /\ NumWarnings(c) = 0

\* C4: with exponential true, base <= 1 and a logger whose warning raises, the
\* invocation still returns abs(base): nothing is raised to the caller, and the
\* warning was attempted once only.
C4_LoggerFailureSwallowed ==
    \A c \in Callers :
        (Done(c) /\ Degenerate(args[c]) /\ WarningOutcome(args[c].logger) # "ok") =>
            /\ result[c].kind = "return"
            /\ result[c].val = ValAbs(args[c].base)
            /\ NumWarnings(c) = 1

C4_Witness ==
    \E c \in Callers :
        /\ Done(c)
        /\ args[c].exponential
        /\ args[c].base = PyFloat(1, -1)
        /\ args[c].logger = "interrupted"
        /\ result[c] = Returned(PyFloat(1, -1))

\* C5: every invocation ends by returning a number, never by raising to the
\* caller, whatever the arguments and the logger.
C5_Total ==
    \A c \in Callers :
        /\ Done(c) => result[c].kind = "return"
        /\ (Running(c) /\ ~Done(c)) => ENABLED Next

\* C6: an invocation changes nothing but the logger's record: its arguments
\* stay as passed, a step of one invocation leaves the other invocations alone,
\* every call on the logger is a warning, and an invocation makes at most one,
\* and none unless exponential is true and base <= 1.
C6_Frame ==
    /\ [](\A c \in Callers :
            /\ NumWarnings(c) <= 1
            /\ NumWarnings(c) = 1 => Degenerate(args[c])
            /\ \A i \in DOMAIN log : log[i].op = "warning")
    /\ [][\A c \in Callers :
            /\ Running(c) => args'[c] = args[c]
            /\ pc'[c] = pc[c] =>
                /\ args'[c] = args[c]
                /\ result'[c] = result[c]
                /\ NumWarnings(c)' = NumWarnings(c)]_vars

C6_Witness ==
    \E c \in Callers :
        /\ Done(c)
        /\ Degenerate(args[c])
        /\ args[c].ntries = 2
        /\ NumWarnings(c) = 1
        /\ Len(log) = 1

\* C7: under every interleaving of the callers' steps, a finished invocation
\* has the outcome it has when run alone on the same arguments, and the logger
\* has recorded as many warnings as there are invocations with exponential true
\* and base <= 1 that have passed their warning statement.
Alone(a) ==
    IF Healthy(a) THEN PyPow(a.base, a.ntries) ELSE Returned(ValAbs(a.base))

C7_Independent ==
    /\ \A c \in Callers : Done(c) => result[c] = Alone(args[c])
    /\ Len(log) = Cardinality({c \in Callers :
                        pc[c] \in {"L16", "done"} /\ Degenerate(args[c])})

C7_Witness ==
    /\ pc["c1"] = "L16"
    /\ pc["c2"] = "L16"
    /\ Len(log) = 2
    /\ log[1].caller = "c2"
    /\ log[2].caller = "c1"

\* C8: a returned delay is never negative, and on the exponential path with
\* base > 1 it is at least 1 (the power is returned as computed).
C8_NonNegative ==
    \A c \in Callers :
        (Done(c) /\ result[c].kind = "return") =>
            /\ result[c].val.v >= 0
            /\ Healthy(args[c]) =>
                /\ result[c].val.v >= 1
                /\ result[c].val.e >= 0
                /\ result[c].val = ValPow(args[c].base, args[c].ntries)

C8_Witness ==
    \E c, d \in Callers :
        /\ Done(c) /\ Done(d)
        /\ args[c].base = PyInt(-1) /\ result[c] = Returned(PyInt(1))
        /\ args[d] = [exponential |-> TRUE, base |-> PyFloat(1, 511),
                      ntries |-> 2, logger |-> "working"]
        /\ result[d] = Returned(PyFloat(1, 1022))

\* C9: the outcome of an invocation is a function of (exponential, base,
\* ntries): two invocations that agree on them end alike whatever their
\* loggers do; and when exponential is false or base <= 1 they end alike even
\* with different ntries.
C9_LoggerDoesNotMatter ==
    \A c, d \in Callers :
        (/\ Done(c) /\ Done(d)
         /\ args[c].exponential = args[d].exponential
         /\ args[c].base = args[d].base
         /\ (args[c].ntries = args[d].ntries \/ ~Healthy(args[c])))
        => result[c] = result[d]

C9_Witness ==
    /\ Done("c1") /\ Done("c2")
    /\ args["c1"] = [exponential |-> TRUE, base |-> PyInt(0),
                     ntries |-> 0, logger |-> "working"]
    /\ args["c2"] = [exponential |-> TRUE, base |-> PyInt(0),
                     ntries |-> 2, logger |-> "failing"]
    /\ result["c1"] = result["c2"]

\* C10: with exponential true and base > 1, the delay for ntries = 0 is 1, and
\* the delay for n + 1 is base times the delay for n, which is greater.
C10_StrictGrowth ==
    \A c, d \in Callers :
        (/\ Done(c) /\ Done(d)
         /\ Healthy(args[c]) /\ Healthy(args[d])
         /\ args[c].base = args[d].base
         /\ args[d].ntries = args[c].ntries + 1)
        => /\ result[c].kind = "return"
           /\ result[d].kind = "return"
           /\ args[c].ntries = 0 => result[c].val = ValOne(args[c].base)
           /\ result[d].val = ValTimes(args[c].base, result[c].val)
           /\ ValLess(result[c].val, result[d].val)

====
